---- MODULE Spec2Model ----
(***************************************************************************)
(* State-machine model of the shadow_trade_mxe Anchor program              *)
(* (src/mxe-program.rs): the account store the program reads and writes,   *)
(* the account-constraint validation that Anchor runs before each handler, *)
(* the five instruction handlers, the program log (msg!) of the last       *)
(* transaction and the events emitted with emit!.                          *)
(***************************************************************************)
EXTENDS Integers, Sequences, FiniteSets, TLC

VARIABLES accounts, clock, last, logs, events, settled

vars == <<accounts, clock, last, logs, events, settled>>

(* ------------------------------ bounds --------------------------------- *)

\* largest unix timestamp the Clock sysvar reaches
MaxClock == 2

(* --------------------------- identities -------------------------------- *)

\* the identities that sign transactions (two distinct public keys)
Keys == {1, 2}

\* Pubkey::default(): the value of a Pubkey field in a zero-initialised account
DefaultPubkey == 0

(* ---------------------------- addresses -------------------------------- *)

\* Pubkey::find_program_address(seeds, program_id): the derived address and
\* its canonical bump; the hash is modelled by an injective pairing of the
\* seeds and a deterministic bump in the u8 range.
FindProgramAddress(tag, disc) ==
    [address |-> <<tag, disc>>, bump |-> 255 - ((Len(tag) + disc) % 3)]

\* Pubkey::create_program_address(seeds ++ [bump], program_id): only the
\* canonical bump gives back the derived address
CreateProgramAddress(tag, disc, bump) ==
    IF bump = FindProgramAddress(tag, disc).bump
    THEN <<tag, disc>>
    ELSE <<"off-curve", bump>>

MxePda == FindProgramAddress("shadow-trade-mxe", 0)

\* StrategyPda with seeds = [b"strategy"] only: one address for every owner
StrategyPda_Shared(key) == FindProgramAddress("strategy", 1)

StrategyPda(key) == FindProgramAddress("strategy", key)

\* the addresses a transaction may pass as its mxe or strategy account
Addr == {MxePda.address} \cup {StrategyPda(k).address : k \in Keys}

\* the addresses a request signed by key passes as its mxe account: the MXE
\* address, or an address that holds no MXE (the signer's strategy address)
MxeArg(key) == {MxePda.address, StrategyPda(key).address}

(* ----------------------------- records --------------------------------- *)

\* an address nothing was created at (system-owned, no lamports, no data)
NoAccount == [kind |-> "none"]

\* #[account] struct MXE right after `init`: the space is zero-filled
MXE == [kind |-> "MXE",
        authority |-> DefaultPubkey,
        bump |-> 0,
        total_computations |-> 0,
        successful_computations |-> 0,
        created_at |-> 0]

\* #[account] struct Strategy right after `init_if_needed` created it
Strategy == [kind |-> "Strategy",
             owner |-> DefaultPubkey,
             bump |-> 0,
             total_return |-> 0,
             win_rate |-> 0,
             total_trades |-> 0,
             win_trades |-> 0,
             last_updated |-> 0]

(* ------------------------------ inputs --------------------------------- *)

\* EncryptedData values: opaque ciphertexts
Blobs == {"ct1", "ct2"}

\* (rsi_period, rsi_oversold, rsi_overbought), each a u8
RsiArgs == {[rsi_period |-> 14, rsi_oversold |-> 30, rsi_overbought |-> 70],
            [rsi_period |-> 14, rsi_oversold |-> 70, rsi_overbought |-> 30],
            [rsi_period |-> 14, rsi_oversold |-> 30, rsi_overbought |-> 101]}

\* (risk_percentage: u8, current_price: u64)
PositionArgs == {[risk_percentage |-> 50, current_price |-> 100],
                 [risk_percentage |-> 101, current_price |-> 100],
                 [risk_percentage |-> 0, current_price |-> 0]}

\* (total_return: i64, win_rate: u16, total_trades: u32, win_trades: u32)
PerformanceArgs ==
    {[total_return |-> 250, win_rate |-> 6000, total_trades |-> 10, win_trades |-> 6],
     [total_return |-> -80, win_rate |-> 7500, total_trades |-> 4, win_trades |-> 3],
     [total_return |-> 0, win_rate |-> 10001, total_trades |-> 6, win_trades |-> 10]}

(* ------------------------ account validation --------------------------- *)

\* LoadMxe with a has_one = authority constraint added
LoadMxe_HasOne(authority, mxe) ==
    IF accounts[mxe].kind = "none" THEN "AccountNotInitialized"
    ELSE IF accounts[mxe].kind # "MXE" THEN "AccountDiscriminatorMismatch"
    ELSE IF CreateProgramAddress("shadow-trade-mxe", 0, accounts[mxe].bump) # mxe
         THEN "ConstraintSeeds"
    ELSE IF accounts[mxe].authority # authority THEN "ConstraintHasOne"
    ELSE "Ok"

\* LoadMxe with an UncheckedAccount: nothing is required of the mxe account
LoadMxe_Unchecked(authority, mxe) == "Ok"

\* Account<'info, MXE> with seeds = [b"shadow-trade-mxe"], bump = mxe.bump:
\* the account is loaded as an MXE, then its address is re-derived from the
\* stored bump. The signer is not compared with anything.
LoadMxe(authority, mxe) ==
    IF accounts[mxe].kind = "none" THEN "AccountNotInitialized"
    ELSE IF accounts[mxe].kind # "MXE" THEN "AccountDiscriminatorMismatch"
    ELSE IF CreateProgramAddress("shadow-trade-mxe", 0, accounts[mxe].bump) # mxe
         THEN "ConstraintSeeds"
    ELSE "Ok"

\* Initialize with init_if_needed in place of init
Initialize_IfNeeded(authority, mxe) ==
    IF mxe # MxePda.address THEN "ConstraintSeeds"
    ELSE IF accounts[mxe].kind \notin {"none", "MXE"} THEN "AccountDiscriminatorMismatch"
    ELSE "Ok"

\* #[derive(Accounts)] struct Initialize: init, seeds = [b"shadow-trade-mxe"]
Initialize(authority, mxe) ==
    IF mxe # MxePda.address THEN "ConstraintSeeds"
    ELSE IF accounts[mxe].kind # "none" THEN "AccountAlreadyInUse"
    ELSE "Ok"

EvaluateRSI(authority, mxe) == LoadMxe(authority, mxe)

CalculatePosition(authority, mxe) == LoadMxe(authority, mxe)

CalculatePerformance(authority, mxe) == LoadMxe(authority, mxe)

\* UpdatePerformance without the seeds constraint on the strategy account
UpdatePerformance_NoSeeds(authority, strategy) ==
    IF accounts[strategy].kind = "none" THEN "Ok"
    ELSE IF accounts[strategy].kind # "Strategy" THEN "AccountDiscriminatorMismatch"
    ELSE "Ok"

\* UpdatePerformance with a plain Account in place of init_if_needed
UpdatePerformance_NoInit(authority, strategy) ==
    IF strategy # StrategyPda(authority).address THEN "ConstraintSeeds"
    ELSE IF accounts[strategy].kind = "none" THEN "AccountNotInitialized"
    ELSE IF accounts[strategy].kind # "Strategy" THEN "AccountDiscriminatorMismatch"
    ELSE "Ok"

\* #[derive(Accounts)] struct UpdatePerformance validated against the account
\* store accts: init_if_needed, seeds = [b"strategy", authority.key()]
UpdatePerformanceOn(accts, authority, strategy) ==
    IF strategy # StrategyPda(authority).address THEN "ConstraintSeeds"
    ELSE IF accts[strategy].kind = "none" THEN "Ok"
    ELSE IF accts[strategy].kind # "Strategy" THEN "AccountDiscriminatorMismatch"
    ELSE "Ok"

\* #[derive(Accounts)] struct UpdatePerformance validated against the
\* current account store
UpdatePerformance(authority, strategy) ==
    UpdatePerformanceOn(accounts, authority, strategy)

(* --------------------------- handler bodies ---------------------------- *)

\* `x as f64 / 100.0` as printed by "{}": sign, integer part, hundredths
Div100(x) ==
    LET a == IF x < 0 THEN -x ELSE x
    IN [neg |-> x < 0, whole |-> a \div 100, frac |-> a % 100]

\* InitMxe without the assignment of mxe.authority
InitMxe_NoAuthority(mxe, authority, bump) ==
    [mxe EXCEPT !.bump = bump]

\* body of initialize: two fields of the fresh account are assigned
InitMxe(mxe, authority, bump) ==
    [mxe EXCEPT !.authority = authority, !.bump = bump]

\* WritePerformance averaging the win rate with the stored one
WritePerformance_Average(strategy, args, now) ==
    [strategy EXCEPT !.total_return = args.total_return,
                     !.win_rate = (strategy.win_rate + args.win_rate) \div 2,
                     !.total_trades = args.total_trades,
                     !.win_trades = args.win_trades,
                     !.last_updated = now]

\* WritePerformance adding the trade counts to the stored ones (the sums of
\* the modelled arguments stay far below the u32 range within a short run)
WritePerformance_Accumulate(strategy, args, now) ==
    [strategy EXCEPT !.total_return = args.total_return,
                     !.win_rate = args.win_rate,
                     !.total_trades = strategy.total_trades + args.total_trades,
                     !.win_trades = strategy.win_trades + args.win_trades,
                     !.last_updated = now]

\* body of update_strategy_performance: five fields are assigned
WritePerformance(strategy, args, now) ==
    [strategy EXCEPT !.total_return = args.total_return,
                     !.win_rate = args.win_rate,
                     !.total_trades = args.total_trades,
                     !.win_trades = args.win_trades,
                     !.last_updated = now]

\* the account store after the handler body of update_strategy_performance
\* ran on the strategy account, which init_if_needed created if it was absent
WriteStrategy(accts, strategy, args, now) ==
    [accts EXCEPT ![strategy] =
        WritePerformance(IF accts[strategy].kind = "none" THEN Strategy
                         ELSE accts[strategy], args, now)]

\* the account store after a whole update_strategy_performance transaction
\* applied to the store accts: unchanged when the validation fails
SettleOn(accts, authority, strategy, args, now) ==
    IF UpdatePerformanceOn(accts, authority, strategy) = "Ok"
    THEN WriteStrategy(accts, strategy, args, now)
    ELSE accts

\* the record of the call just made; existed: an account was stored at the
\* passed address when the call was made; repeat: the previous call succeeded
\* and had the same instruction, signer, accounts and arguments; variant: the
\* previous call was the same request with other encrypted blobs
Call(op, signer, acct, args, result, ret) ==
    [op |-> op, signer |-> signer, acct |-> acct, args |-> args,
     result |-> result, ret |-> ret,
     existed |-> accounts[acct].kind # "none",
     repeat |-> /\ last.op = op
                /\ last.signer = signer
                /\ last.acct = acct
                /\ last.args = args
                /\ last.result = "Ok",
     variant |-> /\ last.op = op
                 /\ op \in {"evaluate_rsi_strategy", "calculate_position_size",
                            "calculate_performance_metrics"}
                 /\ last.signer = signer
                 /\ last.acct = acct
                 /\ last.args.params = args.params
                 /\ last.args.blobs # args.blobs]

NoCall == [op |-> "none", signer |-> DefaultPubkey, acct |-> <<>>, args |-> <<>>,
           result |-> "none", ret |-> "none", existed |-> FALSE, repeat |-> FALSE,
           variant |-> FALSE]

(* ------------------------------- Init ---------------------------------- *)

Init ==
    /\ accounts = [a \in Addr |-> NoAccount]
    /\ clock = 1
    /\ last = NoCall
    /\ logs = <<>>
    /\ events = <<>>
    /\ settled = [k \in Keys |-> <<>>]

(* ------------------------------ actions -------------------------------- *)

\* pub fn initialize(ctx: Context<Initialize>)
initialize(authority, mxe) ==
    LET result == Initialize(authority, mxe) IN
    /\ IF result = "Ok"
       THEN /\ accounts' = [accounts EXCEPT
                              ![mxe] = InitMxe(MXE, authority, MxePda.bump)]
            /\ logs' = <<[msg |-> "ShadowTrade MXE initialized by", key |-> authority]>>
       ELSE /\ accounts' = accounts
            /\ logs' = <<>>
    /\ last' = Call("initialize", authority, mxe, <<>>, result,
                    IF result = "Ok" THEN "unit" ELSE "err")
    /\ UNCHANGED <<clock, events, settled>>

\* evaluate_rsi_strategy writing the encrypted input to the program log
evaluate_rsi_strategy_Leaks(authority, mxe, encrypted_prices, args) ==
    LET result == EvaluateRSI(authority, mxe) IN
    /\ logs' = IF result = "Ok"
               THEN <<[msg |-> "RSI strategy evaluation requested",
                       prices |-> encrypted_prices],
                      [msg |-> "RSI Period, Oversold, Overbought",
                       rsi_period |-> args.rsi_period,
                       rsi_oversold |-> args.rsi_oversold,
                       rsi_overbought |-> args.rsi_overbought]>>
               ELSE <<>>
    /\ last' = Call("evaluate_rsi_strategy", authority, mxe,
                    [blobs |-> <<encrypted_prices>>, params |-> args], result,
                    IF result = "Ok" THEN encrypted_prices ELSE "err")
    /\ UNCHANGED <<accounts, clock, events, settled>>

\* pub fn evaluate_rsi_strategy(ctx, encrypted_prices, rsi_period,
\*                              rsi_oversold, rsi_overbought)
evaluate_rsi_strategy(authority, mxe, encrypted_prices, args) ==
    LET result == EvaluateRSI(authority, mxe) IN
    /\ logs' = IF result = "Ok"
               THEN <<[msg |-> "RSI strategy evaluation requested"],
                      [msg |-> "RSI Period, Oversold, Overbought",
                       rsi_period |-> args.rsi_period,
                       rsi_oversold |-> args.rsi_oversold,
                       rsi_overbought |-> args.rsi_overbought]>>
               ELSE <<>>
    /\ last' = Call("evaluate_rsi_strategy", authority, mxe,
                    [blobs |-> <<encrypted_prices>>, params |-> args], result,
                    IF result = "Ok" THEN encrypted_prices ELSE "err")
    /\ UNCHANGED <<accounts, clock, events, settled>>

\* pub fn calculate_position_size(ctx, encrypted_balance, risk_percentage,
\*                                current_price)
calculate_position_size(authority, mxe, encrypted_balance, args) ==
    LET result == CalculatePosition(authority, mxe) IN
    /\ logs' = IF result = "Ok"
               THEN <<[msg |-> "Position size calculation requested"],
                      [msg |-> "Risk percentage, Current price",
                       risk_percentage |-> args.risk_percentage,
                       current_price |-> args.current_price]>>
               ELSE <<>>
    /\ last' = Call("calculate_position_size", authority, mxe,
                    [blobs |-> <<encrypted_balance>>, params |-> args], result,
                    IF result = "Ok" THEN encrypted_balance ELSE "err")
    /\ UNCHANGED <<accounts, clock, events, settled>>

\* calculate_performance_metrics counting the request in the MXE record
calculate_performance_metrics_Counts(authority, mxe, encrypted_trades, encrypted_initial_balance) ==
    LET result == CalculatePerformance(authority, mxe) IN
    /\ logs' = IF result = "Ok"
               THEN <<[msg |-> "Performance metrics calculation requested"]>>
               ELSE <<>>
    /\ accounts' = IF result = "Ok"
                   THEN [accounts EXCEPT ![mxe].total_computations = 1]
                   ELSE accounts
    /\ last' = Call("calculate_performance_metrics", authority, mxe,
                    [blobs |-> <<encrypted_trades, encrypted_initial_balance>>,
                     params |-> <<>>], result,
                    IF result = "Ok" THEN encrypted_trades ELSE "err")
    /\ UNCHANGED <<clock, events, settled>>

\* pub fn calculate_performance_metrics(ctx, encrypted_trades,
\*                                      encrypted_initial_balance)
calculate_performance_metrics(authority, mxe, encrypted_trades, encrypted_initial_balance) ==
    LET result == CalculatePerformance(authority, mxe) IN
    /\ logs' = IF result = "Ok"
               THEN <<[msg |-> "Performance metrics calculation requested"]>>
               ELSE <<>>
    /\ last' = Call("calculate_performance_metrics", authority, mxe,
                    [blobs |-> <<encrypted_trades, encrypted_initial_balance>>,
                     params |-> <<>>], result,
                    IF result = "Ok" THEN encrypted_trades ELSE "err")
    /\ UNCHANGED <<accounts, clock, events, settled>>

\* update_strategy_performance whose write is not undone when the
\* transaction fails on an existing Strategy account
update_strategy_performance_NoAbort(authority, strategy, args) ==
    LET result == UpdatePerformance(authority, strategy) IN
    /\ IF result = "Ok" \/ accounts[strategy].kind = "Strategy"
       THEN accounts' = WriteStrategy(accounts, strategy, args, clock)
       ELSE accounts' = accounts
    /\ IF result = "Ok"
       THEN /\ logs' = <<[msg |-> "Strategy performance updated",
                          return |-> Div100(args.total_return),
                          win_rate |-> Div100(args.win_rate)]>>
            /\ settled' = [settled EXCEPT
                             ![authority] = <<[args |-> args, at |-> clock]>>]
       ELSE /\ logs' = <<>>
            /\ settled' = settled
    /\ last' = Call("update_strategy_performance", authority, strategy, args, result,
                    IF result = "Ok" THEN "unit" ELSE "err")
    /\ UNCHANGED <<clock, events>>

\* pub fn update_strategy_performance(ctx, total_return, win_rate,
\*                                    total_trades, win_trades)
update_strategy_performance(authority, strategy, args) ==
    LET result == UpdatePerformance(authority, strategy) IN
    /\ IF result = "Ok"
       THEN /\ accounts' = WriteStrategy(accounts, strategy, args, clock)
            /\ logs' = <<[msg |-> "Strategy performance updated",
                          return |-> Div100(args.total_return),
                          win_rate |-> Div100(args.win_rate)]>>
            /\ settled' = [settled EXCEPT
                             ![authority] = <<[args |-> args, at |-> clock]>>]
       ELSE /\ accounts' = accounts
            /\ logs' = <<>>
            /\ settled' = settled
    /\ last' = Call("update_strategy_performance", authority, strategy, args, result,
                    IF result = "Ok" THEN "unit" ELSE "err")
    /\ UNCHANGED <<clock, events>>

\* the Clock sysvar advances between transactions
Tick ==
    /\ clock < MaxClock
    /\ clock' = clock + 1
    /\ UNCHANGED <<accounts, last, logs, events, settled>>

Next ==
    \/ \E k \in Keys, a \in Addr : initialize(k, a)
    \/ \E k \in Keys, b \in Blobs, p \in RsiArgs : \E a \in MxeArg(k) :
          evaluate_rsi_strategy(k, a, b, p)
    \/ \E k \in Keys, b \in Blobs, p \in PositionArgs : \E a \in MxeArg(k) :
          calculate_position_size(k, a, b, p)
    \/ \E k \in Keys, b1 \in Blobs, b2 \in Blobs : \E a \in MxeArg(k) :
          calculate_performance_metrics(k, a, b1, b2)
    \/ \E k \in Keys, a \in Addr, p \in PerformanceArgs :
          update_strategy_performance(k, a, p)
    \/ Tick

Spec == Init /\ [][Next]_vars

(* ======================= properties of the program ===================== *)

RequestOps == {"evaluate_rsi_strategy", "calculate_position_size",
               "calculate_performance_metrics"}

Settlement == "update_strategy_performance"

\* the step is an instruction call (the clock stands still during a call)
IsCall(op) == clock' = clock /\ last'.op = op

StrategyOf(k) == accounts[StrategyPda(k).address]

\* the four numeric fields of a Strategy record or of an argument tuple
Numbers(r) == <<r.total_return, r.win_rate, r.total_trades, r.win_trades>>

(* ------------------------------- C1 ------------------------------------ *)

\* C1: a settlement signed by B that passes the Strategy account derived for
\* A # B fails and leaves A's record as it was, and every step that changes
\* A's Strategy record is a successful settlement signed by A.
C1_OnlyOwnerSettles ==
    [][\A k \in Keys :
         LET a == StrategyPda(k).address IN
         /\ (IsCall(Settlement) /\ last'.acct = a /\ last'.signer # k)
               => (last'.result # "Ok" /\ accounts'[a] = accounts[a])
         /\ accounts'[a] # accounts[a]
               => (IsCall(Settlement) /\ last'.signer = k /\ last'.result = "Ok")
      ]_vars

\* a settlement signed by another identity was attempted on an existing
\* Strategy record and was rejected
C1_Witness ==
    /\ last.op = Settlement
    /\ \E k \in Keys :
          /\ last.acct = StrategyPda(k).address
          /\ last.signer # k
          /\ StrategyOf(k).kind = "Strategy"
    /\ last.result = "ConstraintSeeds"

(* ------------------------------- C2 ------------------------------------ *)

MxeAccounts(accts) == {a \in Addr : accts[a].kind = "MXE"}

\* C2: at most one MXE record exists; an initialize call made while an MXE
\* record exists fails, whoever signs it, and no step changes an existing MXE
\* record.
C2_SingleRegistry ==
    [][/\ Cardinality(MxeAccounts(accounts')) <= 1
       /\ (IsCall("initialize") /\ MxeAccounts(accounts) # {})
             => last'.result # "Ok"
       /\ (IsCall("initialize") /\ last'.result = "Ok")
             => MxeAccounts(accounts) = {}
       /\ \A a \in MxeAccounts(accounts) : accounts'[a] = accounts[a]
      ]_vars

\* a second initialize, signed by an identity other than the authority, was
\* rejected
C2_Witness ==
    /\ last.op = "initialize"
    /\ last.result = "AccountAlreadyInUse"
    /\ accounts[MxePda.address].kind = "MXE"
    /\ last.signer # accounts[MxePda.address].authority

(* ------------------------------- C3 ------------------------------------ *)

\* C3: the Strategy record of an owner who has settled holds exactly the
\* arguments of the owner's most recent successful settlement, and
\* last_updated is the clock value of that settlement.
C3_LastWriterWins ==
    \A k \in Keys :
       settled[k] # <<>> =>
          /\ StrategyOf(k).kind = "Strategy"
          /\ Numbers(StrategyOf(k)) = Numbers(settled[k][1].args)
          /\ StrategyOf(k).last_updated = settled[k][1].at

\* a settlement with new arguments has overwritten a record that an earlier
\* settlement had written at an earlier time
C3_Witness ==
    /\ last.op = Settlement
    /\ last.result = "Ok"
    /\ last.existed
    /\ ~last.repeat
    /\ StrategyOf(last.signer).win_rate = 7500
    /\ StrategyOf(last.signer).last_updated > 1

(* ------------------------------- C4 ------------------------------------ *)

\* C4: a successful settlement that repeats the previous call (same signer,
\* same account, same arguments) leaves every field of the owner's Strategy
\* record except last_updated as the first application left it.
C4_IdempotentRetry ==
    [][\A k \in Keys :
         (IsCall(Settlement) /\ last'.signer = k /\ last'.repeat
            /\ last'.result = "Ok")
         => /\ StrategyOf(k).kind = "Strategy"
            /\ [StrategyOf(k)' EXCEPT !.last_updated = 0]
                 = [StrategyOf(k) EXCEPT !.last_updated = 0]
      ]_vars

\* a settlement was retried with identical arguments at a later time
C4_Witness ==
    /\ last.op = Settlement
    /\ last.result = "Ok"
    /\ last.repeat
    /\ StrategyOf(last.signer).last_updated = MaxClock

(* ------------------------------- C5 ------------------------------------ *)

\* C5: a calculate_position_size call on the initialised MXE account succeeds
\* if and only if risk_percentage <= 100 and current_price # 0, and a
\* risk_percentage above 100 fails with InvalidRiskPercentage.
C5_PositionSizeValidated ==
    (/\ last.op = "calculate_position_size"
     /\ last.acct = MxePda.address
     /\ last.existed)
    => /\ last.result = "Ok" <=> (/\ last.args.params.risk_percentage <= 100
                                  /\ last.args.params.current_price # 0)
       /\ last.args.params.risk_percentage > 100
             => last.result = "InvalidRiskPercentage"

(* ------------------------------- C6 ------------------------------------ *)

\* C6: every existing Strategy record has win_rate in [0, 10000].
C6_WinRateInRange ==
    \A a \in Addr :
       accounts[a].kind = "Strategy" => accounts[a].win_rate \in 0..10000

(* ------------------------------- C7 ------------------------------------ *)

\* C7: the Strategy record created by O's first settlement has owner = O, and
\* no step changes the owner field of an existing Strategy record.
C7_OwnerRecorded ==
    [][\A k \in Keys :
         LET a == StrategyPda(k).address IN
         /\ accounts'[a].kind = "Strategy" => accounts'[a].owner = k
         /\ accounts[a].kind = "Strategy" => accounts'[a].owner = accounts[a].owner
      ]_vars

(* ------------------------------- C8 ------------------------------------ *)

\* the event a request call is to append: its kind, the caller and the scalar
\* parameters of the call
RequestEvent(call, now) ==
    IF call.op = "evaluate_rsi_strategy"
    THEN [kind |-> "RSIComputationRequested", authority |-> call.signer,
          rsi_period |-> call.args.params.rsi_period,
          rsi_oversold |-> call.args.params.rsi_oversold,
          rsi_overbought |-> call.args.params.rsi_overbought,
          timestamp |-> now]
    ELSE IF call.op = "calculate_position_size"
    THEN [kind |-> "PositionSizeComputationRequested", authority |-> call.signer,
          risk_percentage |-> call.args.params.risk_percentage,
          current_price |-> call.args.params.current_price,
          timestamp |-> now]
    ELSE [kind |-> "PerformanceComputationRequested", authority |-> call.signer,
          timestamp |-> now]

\* C8: every successful computation request appends exactly one event, of
\* the kind of the operation, with the caller's identity and the call's
\* scalar parameters.
C8_RequestEmitsEvent ==
    [][\A op \in RequestOps :
         (IsCall(op) /\ last'.result = "Ok" /\ last' # last)
         => events' = Append(events, RequestEvent(last', clock))
      ]_vars

(* ------------------------------- C9 ------------------------------------ *)

\* C9: every successful settlement appends exactly one
\* StrategyPerformanceUpdated event with the four values just written.
C9_SettlementEmitsEvent ==
    [][(IsCall(Settlement) /\ last'.result = "Ok" /\ last' # last)
         => events' = Append(events,
               [kind |-> "StrategyPerformanceUpdated",
                strategy |-> last'.acct,
                total_return |-> accounts'[last'.acct].total_return,
                win_rate |-> accounts'[last'.acct].win_rate,
                total_trades |-> accounts'[last'.acct].total_trades,
                win_trades |-> accounts'[last'.acct].win_trades,
                timestamp |-> clock])
      ]_vars

(* ------------------------------- C10 ----------------------------------- *)

\* C10: once the MXE record exists, a computation request that passes it
\* succeeds whoever signs it.
C10_RequestsPermissionless ==
    (/\ last.op \in RequestOps
     /\ last.acct = MxePda.address
     /\ last.existed)
    => last.result = "Ok"

\* a request signed by an identity other than the MXE authority succeeded
C10_Witness ==
    /\ last.op \in RequestOps
    /\ last.result = "Ok"
    /\ accounts[MxePda.address].kind = "MXE"
    /\ last.signer # accounts[MxePda.address].authority

(* ------------------------------- C11 ----------------------------------- *)

\* C11: a request that differs from the previous call only in its encrypted
\* blobs has the same outcome, writes the same program log, and changes the
\* accounts and the events as little as that call did (not at all); a
\* successful request returns its first blob unchanged.
C11_BlobsNotInspected ==
    [][\A op \in RequestOps :
         /\ (IsCall(op) /\ last'.variant)
               => /\ last'.result = last.result
                  /\ logs' = logs
                  /\ accounts' = accounts
                  /\ events' = events
         /\ (IsCall(op) /\ last'.result = "Ok") => last'.ret = last'.args.blobs[1]
      ]_vars

\* a successful request followed the same request made with other blobs
C11_Witness ==
    /\ last.op \in RequestOps
    /\ last.variant
    /\ last.result = "Ok"
    /\ last.ret = last.args.blobs[1]
    /\ logs # <<>>

(* ------------------------------- C12 ----------------------------------- *)

AllOps == RequestOps \cup {"initialize", Settlement}

\* C12: a call that fails leaves every account and the events as they were.
C12_FailureIsAtomic ==
    [][\A op \in AllOps :
         (IsCall(op) /\ last'.result # "Ok")
         => (accounts' = accounts /\ events' = events)
      ]_vars

\* a settlement on another owner's existing Strategy record failed while the
\* MXE record existed
C12_Witness ==
    /\ last.op = Settlement
    /\ last.result # "Ok"
    /\ last.existed
    /\ accounts[last.acct].kind = "Strategy"
    /\ accounts[MxePda.address].kind = "MXE"

(* ------------------------------- C13 ----------------------------------- *)

\* C13: a settlement signed by A changes no account other than the Strategy
\* record derived for A: the MXE record and the Strategy record of every
\* other owner stay as they were.
C13_SettlementFrame ==
    [][\A k \in Keys :
         (IsCall(Settlement) /\ last'.signer = k)
         => \A a \in Addr \ {StrategyPda(k).address} : accounts'[a] = accounts[a]
      ]_vars

\* an owner settled while the MXE record and the other owners' Strategy
\* records existed
C13_Witness ==
    /\ last.op = Settlement
    /\ last.result = "Ok"
    /\ accounts[MxePda.address].kind = "MXE"
    /\ \A k \in Keys : StrategyOf(k).kind = "Strategy"

(* ------------------------------- C14 ----------------------------------- *)

\* C14: every existing Strategy record has win_trades <= total_trades.
C14_WinTradesBounded ==
    \A a \in Addr :
       accounts[a].kind = "Strategy"
       => accounts[a].win_trades <= accounts[a].total_trades

(* ------------------------------- C15 ----------------------------------- *)

\* C15: an evaluate_rsi_strategy call with rsi_oversold >= rsi_overbought or
\* with a threshold above 100 fails with InvalidRSIParameters, and nothing is
\* logged or returned.
C15_RsiParametersValidated ==
    (/\ last.op = "evaluate_rsi_strategy"
     /\ last.acct = MxePda.address
     /\ last.existed
     /\ \/ last.args.params.rsi_oversold >= last.args.params.rsi_overbought
        \/ last.args.params.rsi_oversold > 100
        \/ last.args.params.rsi_overbought > 100)
    => (/\ last.result = "InvalidRSIParameters"
        /\ logs = <<>>
        /\ last.ret = "err")

(* ------------------------------- C16 ----------------------------------- *)

\* C16: a successful initialize signed by X leaves an MXE record whose
\* authority is X, and no step changes the authority or created_at of an
\* existing MXE record.
C16_AuthorityFixed ==
    [][LET m == MxePda.address IN
       /\ (IsCall("initialize") /\ last'.result = "Ok")
             => (accounts'[m].kind = "MXE" /\ accounts'[m].authority = last'.signer)
       /\ accounts[m].kind = "MXE"
             => /\ accounts'[m].kind = "MXE"
                /\ accounts'[m].authority = accounts[m].authority
                /\ accounts'[m].created_at = accounts[m].created_at
      ]_vars

\* requests, settlements and a further initialize have all been made on an
\* initialised MXE record, which still names its creator
C16_Witness ==
    /\ accounts[MxePda.address].kind = "MXE"
    /\ accounts[MxePda.address].authority \in Keys
    /\ last.op = "initialize"
    /\ last.result = "AccountAlreadyInUse"
    /\ last.signer # accounts[MxePda.address].authority
    /\ \E k \in Keys : StrategyOf(k).kind = "Strategy"

(* ------------------------------- C17 ----------------------------------- *)

\* C17: a computation request, successful or not, leaves every account (the
\* MXE record with its counters, and every Strategy record) as it was.
C17_RequestsWriteNothing ==
    [][\A op \in RequestOps : IsCall(op) => accounts' = accounts]_vars

\* a request succeeded on an MXE record whose counters are still zero while
\* a Strategy record existed
C17_Witness ==
    /\ last.op \in RequestOps
    /\ last.result = "Ok"
    /\ accounts[MxePda.address].kind = "MXE"
    /\ accounts[MxePda.address].total_computations = 0
    /\ accounts[MxePda.address].successful_computations = 0
    /\ \E k \in Keys : StrategyOf(k).kind = "Strategy"

(* ------------------------------- C18 ----------------------------------- *)

\* the account store without the last_updated timestamps
NoTime(accts) ==
    [a \in DOMAIN accts |->
       IF accts[a].kind = "Strategy" THEN [accts[a] EXCEPT !.last_updated = 0]
       ELSE accts[a]]

\* the store after key1 settles p1 at time t1 and then key2 settles p2 at t2
Then(accts, key1, p1, t1, key2, p2, t2) ==
    SettleOn(SettleOn(accts, key1, StrategyPda(key1).address, p1, t1),
             key2, StrategyPda(key2).address, p2, t2)

\* C18: from every reachable state, for owners A # B, A's settlement followed
\* by B's gives the same accounts, last_updated aside, as B's followed by A's.
C18_SettlementsCommute ==
    \A ka \in Keys, kb \in Keys, pa \in PerformanceArgs, pb \in PerformanceArgs :
       ka # kb =>
          NoTime(Then(accounts, ka, pa, clock, kb, pb, MaxClock))
            = NoTime(Then(accounts, kb, pb, clock, ka, pa, MaxClock))

\* two owners have settled one after the other with different arguments
C18_Witness ==
    /\ last.op = Settlement
    /\ last.result = "Ok"
    /\ \A k \in Keys : settled[k] # <<>>
    /\ \E k \in Keys :
          /\ k # last.signer
          /\ settled[k][1].args # last.args
          /\ settled[k][1].at < StrategyOf(last.signer).last_updated

(* ------------------------------- C19 ----------------------------------- *)

\* C19: no Strategy record exists for an owner who has not settled; a
\* settlement by an owner without a record succeeds and creates it; a
\* Strategy record that exists still exists after every step.
C19_LazyCreation ==
    [][\A k \in Keys :
         LET a == StrategyPda(k).address IN
         /\ settled[k] = <<>> => accounts[a].kind = "none"
         /\ (IsCall(Settlement) /\ last'.signer = k /\ last'.acct = a
               /\ accounts[a].kind = "none")
               => (last'.result = "Ok" /\ accounts'[a].kind = "Strategy")
         /\ accounts[a].kind = "Strategy" => accounts'[a].kind = "Strategy"
      ]_vars

\* an owner's first settlement has created the owner's Strategy record
C19_Witness ==
    /\ last.op = Settlement
    /\ last.result = "Ok"
    /\ ~last.existed
    /\ StrategyOf(last.signer).kind = "Strategy"

(* ------------------------------- C20 ----------------------------------- *)

\* C20: a request made while no MXE record exists fails, a successful request
\* has passed the MXE record at its derived address, and a settlement on the
\* signer's own strategy address succeeds whether or not the MXE exists.
C20_RegistryBeforeRequests ==
    [][/\ \A op \in RequestOps :
            /\ (IsCall(op) /\ accounts[MxePda.address].kind # "MXE")
                  => last'.result # "Ok"
            /\ (IsCall(op) /\ last'.result = "Ok")
                  => last'.acct = MxePda.address
       /\ (IsCall(Settlement) /\ last'.acct = StrategyPda(last'.signer).address)
             => last'.result = "Ok"
      ]_vars

\* a request on the MXE address failed for want of the record after a
\* settlement had succeeded without it
C20_Witness ==
    /\ last.op \in RequestOps
    /\ last.acct = MxePda.address
    /\ last.result = "AccountNotInitialized"
    /\ \E k \in Keys : StrategyOf(k).kind = "Strategy"

====
